---- MODULE Spec2Model ----
(***************************************************************************)
(* Volatility-surface dashboard, src/dash/app_dash.py.                     *)
(*                                                                         *)
(* The module models the loader cargar_datos_desde_api, the module-level   *)
(* start-up code and the Dash callback update_surface.                     *)
(*                                                                         *)
(* Encoding of the pandas values:                                          *)
(*   - a JSON value of an item is a tuple: <<"num", n>> (a number or a     *)
(*     numeric string), <<"date", yyyymmdd>> (a parseable date string),    *)
(*     <<"str", s>> (any other string used as is), <<"txt">> (text that    *)
(*     parses neither as a number nor as a date) and <<>> (key absent);    *)
(*   - floats are integers in tenths (18.0 is 180), float NaN is NaN;      *)
(*   - the strings of the date columns are the integers yyyymmdd, which    *)
(*     order like the ISO strings; the string "NaT" is NaT, which sorts    *)
(*     after every digit-led string;                                       *)
(*   - Series.mean() is the exact rational <<sum, count>>; <<0, 0>> is     *)
(*     the NaN mean of an empty selection; None is <<>>.                   *)
(***************************************************************************)
EXTENDS Integers, Sequences, FiniteSets, TLC

VARIABLES
    df_resultado,        \* module level, line 32
    fechas_disponibles,  \* module level, line 34
    vencimientos,        \* module level, line 41
    pc,                  \* per invocation: position in update_surface
    args,                \* per invocation: (tipo, fecha) of the callback
    resp,                \* per invocation: what requests.get answered
    locals,              \* per invocation: the local variables
    ret,                 \* per invocation: what the callback returned
    prev                 \* observer: the refresh completed before the last

vars == <<df_resultado, fechas_disponibles, vencimientos,
          pc, args, resp, locals, ret, prev>>

--------------------------------------------------------------------------
(* Bounds *)

MaxItems == 3
MaxFeedItems == 2
MaxConcItems == 1

Procs == {1, 2}

--------------------------------------------------------------------------
(* Values *)

NaN == -1
NaT == 99999999
VolThreshold == 10

Absent == <<>>
Txt == <<"txt">>
Num(n) == <<"num", n>>
Date(d) == <<"date", d>>
Str(s) == <<"str", s>>

None == <<>>

ItemKeys == {"fecha", "vencimiento", "strike", "tipo", "precio", "sigma", "id"}

DisplayCols == {"fecha", "vencimiento", "strike", "tipo", "precio", "sigma"}

Tipos == {"Call", "Put"}

Fechas == {20240501, 20240502}

Item(f, v, k, t, p, s) ==
    [fecha |-> f, vencimiento |-> v, strike |-> k, tipo |-> t,
     precio |-> p, sigma |-> s, id |-> Num(7)]

Quote(v, k, s) == Item(Date(20240501), v, k, Str("Call"), Num(50), s)

GridItems ==
    {Quote(Date(20240621), Num(9000), Num(180)),
     Quote(Date(20240621), Num(9000), Num(200)),
     Quote(Date(20240621), Num(9100), Num(220)),
     Quote(Date(20240719), Num(9000), Num(180)),
     Quote(Date(20240719), Num(9100), Num(180))}

JunkItems ==
    {Quote(Date(20240621), Txt, Num(180)), Quote(Txt, Num(9000), Num(180))}

LowVolItems ==
    {Quote(Date(20240621), Num(9000), s) : s \in {Num(5), Num(10), Absent}}

OtherItems ==
    {Item(Date(20240501), Date(20240621), Num(9000), Str("Put"), Num(50), Num(220)),
     Item(Date(20240502), Date(20240621), Num(9000), Str("Call"), Txt, Num(220)),
     Item(Date(20240501), Date(20240621), Num(9000), Absent, Num(50), Num(220))}

Items == GridItems \cup JunkItems \cup LowVolItems \cup OtherItems

FeedItems ==
    {Quote(Date(20240621), Num(9000), Num(180)),
     Quote(Date(20240719), Txt, Num(200)),
     Item(Date(20240502), Date(20240719), Num(9100), Str("Put"), Num(50), Num(220))}

SeqsUpTo(S, n) == UNION {[1..k -> S] : k \in 0..n}

Answer(exc, status, items) == [exc |-> exc, status |-> status, items |-> items]

Failures == {Answer(TRUE, 0, <<>>), Answer(FALSE, 500, <<>>)}

Responses == Failures \cup {Answer(FALSE, 200, s) : s \in SeqsUpTo(Items, MaxItems)}

Feeds == Failures \cup {Answer(FALSE, 200, s) : s \in SeqsUpTo(FeedItems, MaxFeedItems)}

ConcFeeds == Failures \cup {Answer(FALSE, 200, s) : s \in SeqsUpTo(FeedItems, MaxConcItems)}

StartFeeds ==
    {Answer(FALSE, 200, <<Quote(Date(20240621), Num(9000), Num(180))>>),
     Answer(FALSE, 200, <<Quote(Date(20240719), Num(9100), Num(200)),
                          Item(Date(20240502), Txt, Num(9000), Str("Put"), Num(50), Num(5))>>)}

--------------------------------------------------------------------------
(* pandas *)

IsNA(x) == x = NaN

EqNum(x, y) == ~IsNA(x) /\ ~IsNA(y) /\ x = y

GtNum(x, y) == ~IsNA(x) /\ ~IsNA(y) /\ x > y

ToNumeric(raw) == IF Len(raw) = 2 /\ raw[1] = "num" THEN raw[2] ELSE NaN

ToDateStr(raw) == IF Len(raw) = 2 /\ raw[1] = "date" THEN raw[2] ELSE NaT

ObjectCell(raw) == IF Len(raw) = 2 /\ raw[1] = "str" THEN raw[2] ELSE "nan"

EmptyFrame == [cols |-> {}, rows |-> <<>>]

DataFrame(items) ==
    [cols |-> {c \in ItemKeys : \E i \in 1..Len(items) : items[i][c] # Absent},
     rows |-> items]

CoerceRow(item) ==
    [fecha |-> ToDateStr(item.fecha),
     vencimiento |-> ToDateStr(item.vencimiento),
     strike |-> ToNumeric(item.strike),
     tipo |-> ObjectCell(item.tipo),
     precio |-> ToNumeric(item.precio),
     sigma |-> ToNumeric(item.sigma),
     id |-> item.id]

cargar_datos_desde_api(r) ==
    IF r.exc THEN EmptyFrame
    ELSE IF r.status = 200
    THEN LET df == DataFrame(r.items) IN
         IF {"strike", "precio", "sigma", "fecha", "vencimiento"} \subseteq df.cols
         THEN [cols |-> df.cols,
               rows |-> [i \in 1..Len(df.rows) |-> CoerceRow(df.rows[i])]]
         ELSE EmptyFrame
    ELSE EmptyFrame

RECURSIVE SortSet(_)
SortSet(S) ==
    IF S = {} THEN <<>>
    ELSE LET m == CHOOSE x \in S : \A y \in S : x <= y
         IN <<m>> \o SortSet(S \ {m})

Column(rows, c) == [i \in 1..Len(rows) |-> rows[i][c]]

SortedUnique(vals) == SortSet({vals[i] : i \in {j \in 1..Len(vals) : ~IsNA(vals[j])}})

RECURSIVE SumSeq(_)
SumSeq(s) == IF s = <<>> THEN 0 ELSE Head(s) + SumSeq(Tail(s))

Mean(vals) ==
    LET present == SelectSeq(vals, LAMBDA v : ~IsNA(v))
    IN <<SumSeq(present), Len(present)>>

NotNull(m) == m[2] # 0

--------------------------------------------------------------------------
(* update_surface, piece by piece *)

HasColumns(df, keys) == keys \subseteq df.cols

(* Variant: the threshold test admits a volatility of exactly 1.0. *)
FiltrarGe(df, tipo, fecha) ==
    LET byKey == SelectSeq(df.rows, LAMBDA q : q.tipo = tipo /\ q.fecha = fecha)
    IN [cols |-> df.cols,
        rows |-> SelectSeq(byKey, LAMBDA q : ~IsNA(q.sigma) /\ q.sigma >= VolThreshold)]

(* Variant: line 95 left out. *)
FiltrarNoVol(df, tipo, fecha) ==
    [cols |-> df.cols,
     rows |-> SelectSeq(df.rows, LAMBDA q : q.tipo = tipo /\ q.fecha = fecha)]

Filtrar(df, tipo, fecha) ==
    LET byKey == SelectSeq(df.rows, LAMBDA q : q.tipo = tipo /\ q.fecha = fecha)
    IN [cols |-> df.cols,
        rows |-> SelectSeq(byKey, LAMBDA q : GtNum(q.sigma, VolThreshold))]

IsEmpty(df) == df.cols = {} \/ df.rows = <<>>

Strikes(df) == SortedUnique(Column(df.rows, "strike"))

(* Variant: line 101 left out, so that the name reads the module's list. *)
VencimientosGlobal(df) == vencimientos

Vencimientos(df) == SortedUnique(Column(df.rows, "vencimiento"))

(* Variant: the selection of lines 107-109 forgets the expiry. *)
CellStrikeOnly(df, strike, venc) ==
    LET sel == SelectSeq(df.rows, LAMBDA q : EqNum(q.strike, strike))
        sigma == Mean(Column(sel, "sigma"))
    IN IF NotNull(sigma) THEN sigma ELSE None

Cell(df, strike, venc) ==
    LET sel == SelectSeq(df.rows,
                         LAMBDA q : EqNum(q.strike, strike) /\ q.vencimiento = venc)
        sigma == Mean(Column(sel, "sigma"))
    IN IF NotNull(sigma) THEN sigma ELSE None

(* Variant: line 110 appends a cell only when it has a value. *)
FilaSkipMissing(df, strikes, venc) ==
    SelectSeq([j \in 1..Len(strikes) |-> Cell(df, strikes[j], venc)],
              LAMBDA c : c # None)

Fila(df, strikes, venc) == [j \in 1..Len(strikes) |-> Cell(df, strikes[j], venc)]

ZMatrix(df, strikes, vencs) == [i \in 1..Len(vencs) |-> Fila(df, strikes, vencs[i])]

(* Variant: the table lists only the quotes that reach a cell of the grid. *)
TablaGridRows(df) ==
    LET used == SelectSeq(df.rows, LAMBDA q : ~IsNA(q.strike))
    IN [i \in 1..Len(used) |-> [c \in DisplayCols |-> used[i][c]]]

Tabla(df) == [i \in 1..Len(df.rows) |-> [c \in DisplayCols |-> df.rows[i][c]]]

NoLocals ==
    [df_actualizado |-> EmptyFrame, df_filtrado |-> EmptyFrame,
     strikes |-> <<>>, vencimientos |-> <<>>, z_matrix |-> <<>>]

NoRet == [kind |-> "none", x |-> <<>>, y |-> <<>>, z |-> <<>>, tabla |-> <<>>]

KeyError == [NoRet EXCEPT !.kind = "KeyError"]

NoData == [NoRet EXCEPT !.kind = "nodata"]

Figure(l) ==
    [kind |-> "figure", x |-> l.strikes, y |-> l.vencimientos, z |-> l.z_matrix,
     tabla |-> Tabla(l.df_filtrado)]

(* The whole handler, run alone on one answer of the API. *)
update_surface(r, tipo, fecha) ==
    LET df_a == cargar_datos_desde_api(r)
        l1 == [NoLocals EXCEPT !.df_actualizado = df_a]
    IN IF ~HasColumns(df_a, {"tipo", "fecha", "sigma"})
       THEN [pc |-> "raised", locals |-> l1, ret |-> KeyError]
       ELSE LET df_f == Filtrar(df_a, tipo, fecha)
                l2 == [l1 EXCEPT !.df_filtrado = df_f]
            IN IF IsEmpty(df_f)
               THEN [pc |-> "returned", locals |-> l2, ret |-> NoData]
               ELSE LET s == Strikes(df_f)
                        v == Vencimientos(df_f)
                        l3 == [l2 EXCEPT !.strikes = s, !.vencimientos = v,
                                         !.z_matrix = ZMatrix(df_f, s, v)]
                    IN [pc |-> "returned", locals |-> l3, ret |-> Figure(l3)]

--------------------------------------------------------------------------
(* State machine *)

Done == {"returned", "raised"}

NoPrev ==
    [seen |-> FALSE, args |-> <<"Call", 0>>, df |-> EmptyFrame, ret |-> NoRet,
     start |-> EmptyFrame]

Snapshot(p) ==
    IF pc[p] \in Done
    THEN [seen |-> TRUE, args |-> args[p], df |-> locals[p].df_actualizado, ret |-> ret[p],
          start |-> df_resultado]
    ELSE prev

(* Lines 32-41: the import of the module.  It completes only when the     *)
(* loaded frame has the columns fecha and vencimiento.                    *)
CanStart(r) == HasColumns(cargar_datos_desde_api(r), {"fecha", "vencimiento"})

ModuleLevel(r) ==
    LET df == cargar_datos_desde_api(r)
    IN [df_resultado |-> df,
        fechas_disponibles |-> SortedUnique(Column(df.rows, "fecha")),
        vencimientos |-> SortedUnique(Column(df.rows, "vencimiento"))]

Init ==
    /\ \E r \in StartFeeds :
         /\ CanStart(r)
         /\ df_resultado = ModuleLevel(r).df_resultado
         /\ fechas_disponibles = ModuleLevel(r).fechas_disponibles
         /\ vencimientos = ModuleLevel(r).vencimientos
    /\ pc = [p \in Procs |-> "idle"]
    /\ args = [p \in Procs |-> <<"Call", 0>>]
    /\ resp = [p \in Procs |-> Answer(TRUE, 0, <<>>)]
    /\ locals = [p \in Procs |-> NoLocals]
    /\ ret = [p \in Procs |-> NoRet]
    /\ prev = NoPrev

(* Dash invokes the callback with the two dropdown values. *)
Call(p, tipo, fecha) ==
    /\ pc[p] \in Done \cup {"idle"}
    /\ pc' = [pc EXCEPT ![p] = "called"]
    /\ args' = [args EXCEPT ![p] = <<tipo, fecha>>]
    /\ resp' = [resp EXCEPT ![p] = Answer(TRUE, 0, <<>>)]
    /\ locals' = [locals EXCEPT ![p] = NoLocals]
    /\ ret' = [ret EXCEPT ![p] = NoRet]
    /\ UNCHANGED <<df_resultado, fechas_disponibles, vencimientos>>

(* Lines 92-151 in one step. *)
Refresh(p, r) ==
    /\ pc[p] = "called"
    /\ LET out == update_surface(r, args[p][1], args[p][2])
       IN /\ pc' = [pc EXCEPT ![p] = out.pc]
          /\ locals' = [locals EXCEPT ![p] = out.locals]
          /\ ret' = [ret EXCEPT ![p] = out.ret]
    /\ resp' = [resp EXCEPT ![p] = r]
    /\ UNCHANGED <<df_resultado, fechas_disponibles, vencimientos, args>>

(* The process is started again: lines 32-41 run on what the API answers. *)
Restart(r) ==
    /\ CanStart(r)
    /\ df_resultado' = ModuleLevel(r).df_resultado
    /\ fechas_disponibles' = ModuleLevel(r).fechas_disponibles
    /\ vencimientos' = ModuleLevel(r).vencimientos
    /\ pc' = [p \in Procs |-> "idle"]
    /\ args' = [p \in Procs |-> <<"Call", 0>>]
    /\ resp' = [p \in Procs |-> Answer(TRUE, 0, <<>>)]
    /\ locals' = [p \in Procs |-> NoLocals]
    /\ ret' = [p \in Procs |-> NoRet]
    /\ prev' = Snapshot(1)

(* Line 93. *)
Fetch(p, r) ==
    /\ pc[p] = "called"
    /\ resp' = [resp EXCEPT ![p] = r]
    /\ locals' = [locals EXCEPT ![p].df_actualizado = cargar_datos_desde_api(r)]
    /\ pc' = [pc EXCEPT ![p] = "fetched"]
    /\ UNCHANGED <<df_resultado, fechas_disponibles, vencimientos, args, ret, prev>>

(* Variant: df_filtrado is one variable shared by the invocations. *)
FilterStepShared(p) ==
    /\ pc[p] = "fetched"
    /\ IF HasColumns(locals[p].df_actualizado, {"tipo", "fecha", "sigma"})
       THEN /\ locals' = [q \in Procs |-> [locals[q] EXCEPT !.df_filtrado =
                            Filtrar(locals[p].df_actualizado, args[p][1], args[p][2])]]
            /\ pc' = [pc EXCEPT ![p] = "filtered"]
            /\ ret' = ret
       ELSE /\ locals' = locals
            /\ pc' = [pc EXCEPT ![p] = "raised"]
            /\ ret' = [ret EXCEPT ![p] = KeyError]
    /\ UNCHANGED <<df_resultado, fechas_disponibles, vencimientos, args, resp, prev>>

(* Lines 94-95. *)
FilterStep(p) ==
    /\ pc[p] = "fetched"
    /\ IF HasColumns(locals[p].df_actualizado, {"tipo", "fecha", "sigma"})
       THEN /\ locals' = [locals EXCEPT ![p].df_filtrado =
                            Filtrar(locals[p].df_actualizado, args[p][1], args[p][2])]
            /\ pc' = [pc EXCEPT ![p] = "filtered"]
            /\ ret' = ret
       ELSE /\ locals' = locals
            /\ pc' = [pc EXCEPT ![p] = "raised"]
            /\ ret' = [ret EXCEPT ![p] = KeyError]
    /\ UNCHANGED <<df_resultado, fechas_disponibles, vencimientos, args, resp, prev>>

(* Lines 97-98. *)
ReturnEmpty(p) ==
    /\ pc[p] = "filtered"
    /\ IsEmpty(locals[p].df_filtrado)
    /\ ret' = [ret EXCEPT ![p] = NoData]
    /\ pc' = [pc EXCEPT ![p] = "returned"]
    /\ UNCHANGED <<df_resultado, fechas_disponibles, vencimientos, args, resp, locals, prev>>

(* Lines 100-101. *)
AxesStep(p) ==
    /\ pc[p] = "filtered"
    /\ ~IsEmpty(locals[p].df_filtrado)
    /\ locals' = [locals EXCEPT ![p].strikes = Strikes(locals[p].df_filtrado),
                                ![p].vencimientos = Vencimientos(locals[p].df_filtrado)]
    /\ pc' = [pc EXCEPT ![p] = "axes"]
    /\ UNCHANGED <<df_resultado, fechas_disponibles, vencimientos, args, resp, ret, prev>>

(* Lines 103-111. *)
CellsStep(p) ==
    /\ pc[p] = "axes"
    /\ locals' = [locals EXCEPT ![p].z_matrix =
                    ZMatrix(locals[p].df_filtrado, locals[p].strikes, locals[p].vencimientos)]
    /\ pc' = [pc EXCEPT ![p] = "cells"]
    /\ UNCHANGED <<df_resultado, fechas_disponibles, vencimientos, args, resp, ret, prev>>

(* Lines 113-151. *)
ReturnStep(p) ==
    /\ pc[p] = "cells"
    /\ ret' = [ret EXCEPT ![p] = Figure(locals[p])]
    /\ pc' = [pc EXCEPT ![p] = "returned"]
    /\ UNCHANGED <<df_resultado, fechas_disponibles, vencimientos, args, resp, locals, prev>>

(* One callback at a time, any answer of the API, run as a whole. *)
CallOne == \E t \in Tipos, f \in Fechas : Call(1, t, f) /\ prev' = prev

RefreshOne == pc[1] = "called" /\ \E r \in Responses : Refresh(1, r) /\ prev' = prev

Next == CallOne \/ RefreshOne

Spec == Init /\ [][Next]_vars

(* A session: callbacks one after the other over restarts of the process, *)
(* with the refresh before the last one remembered.                       *)
SessionCall == \E t \in Tipos, f \in Fechas : Call(1, t, f) /\ prev' = Snapshot(1)

SessionRefresh == pc[1] = "called" /\ \E r \in Feeds : Refresh(1, r) /\ prev' = prev

SessionRestart == \E r \in StartFeeds : Restart(r)

NextSession == SessionCall \/ SessionRefresh \/ SessionRestart

SpecSession == Init /\ [][NextSession]_vars

(* Two callbacks in flight at once, a step at a time. *)
ConcCall == \E p \in Procs, t \in Tipos, f \in Fechas : Call(p, t, f) /\ prev' = prev

ConcFetch == \E p \in Procs : pc[p] = "called" /\ \E r \in ConcFeeds : Fetch(p, r)

ConcFilter == \E p \in Procs : FilterStep(p)

ConcReturnEmpty == \E p \in Procs : ReturnEmpty(p)

ConcAxes == \E p \in Procs : AxesStep(p)

ConcCells == \E p \in Procs : CellsStep(p)

ConcReturn == \E p \in Procs : ReturnStep(p)

NextConc ==
    \/ ConcCall
    \/ ConcFetch
    \/ ConcFilter
    \/ ConcReturnEmpty
    \/ ConcAxes
    \/ ConcCells
    \/ ConcReturn

SpecConc == Init /\ [][NextConc]_vars

--------------------------------------------------------------------------
(* What the claims speak of *)

Grid(p) == pc[p] = "returned" /\ ret[p].kind = "figure"

Fetched(p) == locals[p].df_actualizado.rows

(* The three-part predicate of the filter on one loaded quote. *)
Wanted(p, q) ==
    /\ q.tipo = args[p][1]
    /\ q.fecha = args[p][2]
    /\ q.sigma # NaN
    /\ q.sigma > VolThreshold

(* Positions, in the fetched collection, of the quotes the filter keeps. *)
MatchIdx(p) == {i \in 1..Len(Fetched(p)) : Wanted(p, Fetched(p)[i])}

Rank(S, i) == Cardinality({j \in S : j <= i})

(* Kept quotes with the given expiry and strike. *)
PairIdx(p, venc, strike) ==
    {k \in MatchIdx(p) : Fetched(p)[k].vencimiento = venc /\ Fetched(p)[k].strike = strike}

RECURSIVE SumSigma(_, _)
SumSigma(p, S) ==
    IF S = {} THEN 0
    ELSE LET k == CHOOSE x \in S : TRUE
         IN Fetched(p)[k].sigma + SumSigma(p, S \ {k})

StrictlyAscending(s) == \A i \in 1..Len(s), j \in 1..Len(s) : i < j => s[i] < s[j]

Elems(s) == {s[i] : i \in 1..Len(s)}

Populated(p) ==
    {<<i, j>> \in (1..Len(ret[p].y)) \X (1..Len(ret[p].x)) : ret[p].z[i][j] # None}

--------------------------------------------------------------------------
(* Claims *)

(* C1: every refresh ends with a defined result, a grid or the no-data    *)
(* result, never an exception; zero fetched quotes give the no-data       *)
(* result.                                                                *)
C1_NeverRaises ==
    \A p \in Procs :
        pc[p] \in Done =>
            /\ ret[p].kind \in {"figure", "nodata"}
            /\ Fetched(p) = <<>> => ret[p].kind = "nodata"

(* C2: the filtered sequence is the sub-sequence of the fetched quotes, in *)
(* their order, of exactly the quotes of the requested type and date whose *)
(* implied_vol is present and strictly above 1.0.                          *)
C2_FilterIsStableSelection ==
    \A p \in Procs :
        (pc[p] = "returned") =>
            LET out == locals[p].df_filtrado.rows
            IN /\ Len(out) = Cardinality(MatchIdx(p))
               /\ \A i \in MatchIdx(p) : out[Rank(MatchIdx(p), i)] = Fetched(p)[i]

C2_Witness ==
    /\ pc[1] = "returned"
    /\ Len(locals[1].df_filtrado.rows) = 2
    /\ Len(Fetched(1)) = 3
    /\ Fetched(1)[2].sigma = VolThreshold
    /\ Fetched(1)[2].tipo = args[1][1]
    /\ Fetched(1)[2].fecha = args[1][2]

(* C3: each cell of the grid is the arithmetic mean of the implied_vol of  *)
(* exactly the kept quotes with the cell's expiry and strike, and it is    *)
(* the missing marker exactly when there is no such quote.                 *)
C3_CellIsMean ==
    \A p \in Procs :
        Grid(p) =>
            \A i \in 1..Len(ret[p].y), j \in 1..Len(ret[p].x) :
                LET Q == PairIdx(p, ret[p].y[i], ret[p].x[j])
                    c == ret[p].z[i][j]
                IN /\ (c = None) <=> (Q = {})
                   /\ Q # {} => /\ c[2] > 0
                                /\ c[1] * Cardinality(Q) = SumSigma(p, Q) * c[2]

C3_Witness ==
    /\ Grid(1)
    /\ \E i \in 1..Len(ret[1].y), j \in 1..Len(ret[1].x) : ret[1].z[i][j] = <<380, 2>>
    /\ \E i \in 1..Len(ret[1].y), j \in 1..Len(ret[1].x) : ret[1].z[i][j] = None

(* C4: the no-data result is returned whenever no quote is kept or every   *)
(* cell of the grid would be missing, as when every kept quote has a       *)
(* missing strike.                                                         *)
C4_EmptySurface ==
    \A p \in Procs :
        ( /\ pc[p] = "returned"
          /\ \A k \in MatchIdx(p) : Fetched(p)[k].strike = NaN )
        => ret[p].kind = "nodata"

(* C5: both axes are strictly ascending, and each holds exactly the        *)
(* distinct non-missing strikes (expiries) of the kept quotes.             *)
C5_AxesExact ==
    \A p \in Procs :
        Grid(p) =>
            /\ StrictlyAscending(ret[p].x)
            /\ StrictlyAscending(ret[p].y)
            /\ Elems(ret[p].x) = {Fetched(p)[k].strike : k \in MatchIdx(p)} \ {NaN}
            /\ Elems(ret[p].y) = {Fetched(p)[k].vencimiento : k \in MatchIdx(p)} \ {NaT}

(* C6: a returned grid is rectangular: one row per expiry of the axis,     *)
(* each row with one cell per strike of the axis, a pair without quotes    *)
(* being a missing cell of the row.                                        *)
C6_Rectangular ==
    \A p \in Procs :
        Grid(p) =>
            /\ DOMAIN ret[p].z = 1..Len(ret[p].y)
            /\ \A i \in 1..Len(ret[p].y) :
                   /\ DOMAIN ret[p].z[i] = 1..Len(ret[p].x)
                   /\ \A j \in 1..Len(ret[p].x) :
                          \/ ret[p].z[i][j] = None
                          \/ PairIdx(p, ret[p].y[i], ret[p].x[j]) # {}

C6_Witness ==
    /\ Grid(1)
    /\ Len(ret[1].x) = 2
    /\ Len(ret[1].y) = 2
    /\ Cardinality(Populated(1)) = 3

(* C7: what a refresh returns depends on the quotes it fetched and on its  *)
(* two parameters only: two refreshes on the same quotes and parameters    *)
(* return the same grid and table, whatever was loaded at start-up, and    *)
(* the fetched collection is left as it was fetched.                       *)
C7_NoStateBetweenCalls ==
    pc[1] \in Done =>
        /\ locals[1].df_actualizado = cargar_datos_desde_api(resp[1])
        /\ (prev.seen /\ prev.df = locals[1].df_actualizado /\ prev.args = args[1])
              => prev.ret = ret[1]

C7_Witness ==
    /\ Grid(1)
    /\ prev.seen
    /\ prev.df = locals[1].df_actualizado
    /\ prev.args = args[1]
    /\ prev.start # df_resultado

(* C8: however the steps of two invocations interleave, each invocation    *)
(* holds at every step, and returns, what it would when run alone on the   *)
(* answer it fetched.                                                      *)
C8_Independent ==
    \A p \in Procs :
        LET alone == update_surface(resp[p], args[p][1], args[p][2])
        IN /\ pc[p] \in {"fetched", "raised"} =>
                 locals[p] = [NoLocals EXCEPT !.df_actualizado = alone.locals.df_actualizado]
           /\ pc[p] = "filtered" =>
                 locals[p] = [NoLocals EXCEPT
                                 !.df_actualizado = alone.locals.df_actualizado,
                                 !.df_filtrado = alone.locals.df_filtrado]
           /\ pc[p] = "axes" => locals[p] = [alone.locals EXCEPT !.z_matrix = <<>>]
           /\ pc[p] \in {"cells", "returned"} => locals[p] = alone.locals
           /\ pc[p] \in Done => (pc[p] = alone.pc /\ ret[p] = alone.ret)
           /\ pc[p] \notin Done => ret[p] = NoRet

C8_Witness ==
    /\ pc[1] = "cells"
    /\ pc[2] = "cells"
    /\ args[1] # args[2]
    /\ locals[1].z_matrix # locals[2].z_matrix

(* C9: the table handed over with a grid is the filter output, quote for   *)
(* quote and in order, each record cut down to the six display fields.     *)
C9_TableIsFilterOutput ==
    \A p \in Procs :
        Grid(p) =>
            /\ Len(ret[p].tabla) = Cardinality(MatchIdx(p))
            /\ \A i \in MatchIdx(p) :
                   LET rec == ret[p].tabla[Rank(MatchIdx(p), i)]
                   IN /\ DOMAIN rec = DisplayCols
                      /\ \A c \in DisplayCols : rec[c] = Fetched(p)[i][c]

C9_Witness ==
    /\ Grid(1)
    /\ Len(ret[1].tabla) = 2
    /\ Len(Fetched(1)) = 3
    /\ ret[1].tabla[1].strike = NaN
    /\ ret[1].tabla[2].strike # NaN

====
